---- MODULE Spec2Model ----
(***************************************************************************)
(* Model of origin-source/dataset.py: the batch mixing operators MixUP and *)
(* CutMix, the training transform builder, get_dataset and get_dataloader. *)
(*                                                                         *)
(* Numbers.  Tensor entries and ratios are exact rationals, kept as an     *)
(* integer numerator over a denominator carried beside it (field den).     *)
(* A probability p is kept in half units (p2 = 2p), a draw of              *)
(* random.random() as u / RandDen with u in 0..RandDen-1, and a draw of    *)
(* the Beta(alpha, alpha) ratio as k / RatioDen with k in 0..RatioDen.     *)
(* The channel axis is left out: every statement of the source treats all  *)
(* channels alike (the index ":" on axis 1).                               *)
(***************************************************************************)
EXTENDS Integers, Sequences, FiniteSets, TLC

\* ---------------------------------------------------------------- bounds
MaxW == 2
MaxH == MaxW + 1
MaxN == 2
NClass == 2
RatioDen == 4
RandDen == MaxH
MaxAlpha == 2

\* ------------------------------------------------------- tensor helpers
\* F.one_hot(target, num_classes=nclass).to(dtype=batch.dtype)
one_hot(target, nclass) ==
  [ndim |-> 2, den |-> 1,
   rows |-> [i \in 1..Len(target.rows) |->
               [c \in 0..(nclass - 1) |-> IF c = target.rows[i] THEN 1 ELSE 0]]]

\* tensor.roll(1, 0): entry i of the result is entry i-1 of s, entry 1 the last
roll(s) ==
  [i \in 1..Len(s) |-> IF i = 1 THEN s[Len(s)] ELSE s[i - 1]]

\* x * ratio + x_roll * ratio
BlendBug(x, x_roll, rnum, rden) ==
  x * rnum + x_roll * rnum

\* x * (1-ratio) + x_roll * ratio, ratio = rnum / rden; the result is over rden

Blend(x, x_roll, rnum, rden) ==
  x * (rden - rnum) + x_roll * rnum

\* batch + batch_roll * ratio, elementwise
BlendBatchBug(batch, rnum, rden) ==
  LET batch_roll == roll(batch.px)
  IN  [H |-> batch.H, W |-> batch.W, den |-> batch.den * rden,
       px |-> [i \in 1..Len(batch.px) |->
                 [q \in DOMAIN batch.px[i] |->
                    batch.px[i][q] * rden + batch_roll[i][q] * rnum]]]

\* batch * (1-ratio) + batch_roll * ratio, elementwise
BlendBatch(batch, rnum, rden) ==
  LET batch_roll == roll(batch.px)
  IN  [H |-> batch.H, W |-> batch.W, den |-> batch.den * rden,
       px |-> [i \in 1..Len(batch.px) |->
                 [q \in DOMAIN batch.px[i] |->
                    Blend(batch.px[i][q], batch_roll[i][q], rnum, rden)]]]

\* target * (1-ratio) + target_roll * ratio, elementwise
BlendTarget(target, rnum, rden) ==
  LET target_roll == roll(target.rows)
  IN  [ndim |-> 2, den |-> target.den * rden,
       rows |-> [i \in 1..Len(target.rows) |->
                   [c \in DOMAIN target.rows[i] |->
                      Blend(target.rows[i][c], target_roll[i][c], rnum, rden)]]]

\* self.p >= random.random()
SkipBug(self, u) ==
  self.p2 * RandDen >= 2 * u

\* self.p > random.random()

Skip(self, u) ==
  self.p2 * RandDen > 2 * u

\* if target.ndim == 1: target = F.one_hot(...)
Promote(self, target) ==
  IF target.ndim = 1 THEN one_hot(target, self.nclass) ELSE target

NoBox == [start_x |-> 0, end_x |-> 0, start_y |-> 0, end_y |-> 0, r |-> 0, c |-> 0,
          height_half |-> 0, width_half |-> 0]

\* ------------------------------------------------------------- MixUP
MixUP_call(self, batch, target, u, ratio) ==
  IF Skip(self, u)
  THEN [batch |-> batch, target |-> target, skipped |-> TRUE,
        rnum |-> 0, rden |-> 1, box |-> NoBox]
  ELSE LET t == Promote(self, target)
       IN  [batch |-> BlendBatch(batch, ratio, RatioDen),
            target |-> BlendTarget(t, ratio, RatioDen),
            skipped |-> FALSE, rnum |-> ratio, rden |-> RatioDen, box |-> NoBox]

\* ------------------------------------------------------------- CutMix
\* int(0.5 * math.sqrt(ratio) * L), ratio = k / RatioDen: the largest h with
\* h*h <= ratio * L*L / 4
HalfExtent(k, L) ==
  CHOOSE h \in 0..L :
    /\ 4 * RatioDen * h * h <= k * L * L
    /\ 4 * RatioDen * (h + 1) * (h + 1) > k * L * L

\* int(random.random() * L)
RandIndex(u, L) == (u * L) \div RandDen

\* the indices a slice start:end selects on an axis of length L (start, end >= 0)
Slice(start, end, L) == {x \in 0..(L - 1) : start <= x /\ x < end}

Box(k, ur, uc, H, W) ==
  LET height_half == HalfExtent(k, H)
      width_half == HalfExtent(k, W)
      r == RandIndex(ur, H)
      c == RandIndex(uc, W)
      max(a, b) == IF a >= b THEN a ELSE b
      min(a, b) == IF a <= b THEN a ELSE b
  IN  [start_x |-> max(r - height_half, 0),
       end_x |-> min(r + height_half, H),
       start_y |-> max(r - width_half, 0),
       end_y |-> min(r + width_half, W),
       r |-> r, c |-> c, height_half |-> height_half, width_half |-> width_half]

\* the numerator, over H*W, of ratio = 1 - ((end_x - start_x) * (end_y - start_y) / (H * W))
EffRatio(b, H, W) ==
  H * W - (b.end_x - b.start_x) * (b.end_y - b.start_y)

\* batch[:, :, start_x:end_x, start_y:end_y] = batch_roll[:, :, start_x:end_x, start_y:end_y]
Paste(batch, b) ==
  LET batch_roll == roll(batch.px)
      xs == Slice(b.start_x, b.end_x, batch.H)
      ys == Slice(b.start_y, b.end_y, batch.W)
  IN  [H |-> batch.H, W |-> batch.W, den |-> batch.den,
       px |-> [i \in 1..Len(batch.px) |->
                 [q \in DOMAIN batch.px[i] |->
                    IF q[1] \in xs /\ q[2] \in ys
                    THEN batch_roll[i][q] ELSE batch.px[i][q]]]]

CutMix_call(self, batch, target, u, ratio, ur, uc) ==
  IF Skip(self, u)
  THEN [batch |-> batch, target |-> target, skipped |-> TRUE,
        rnum |-> 0, rden |-> 1, box |-> NoBox]
  ELSE LET t == Promote(self, target)
           H == batch.H
           W == batch.W
           b == Box(ratio, ur, uc, H, W)
           reff == EffRatio(b, H, W)
       IN  [batch |-> Paste(batch, b),
            target |-> BlendTarget(t, reff, H * W),
            skipped |-> FALSE, rnum |-> reff, rden |-> H * W, box |-> b]

\* ------------------------------------------------------------- inputs
\* Sample d of the data: an image whose pixels all hold d, labelled d % NClass.
Image(d, H, W) == [q \in (0..(H - 1)) \X (0..(W - 1)) |-> d]

Seqs(S, n) == UNION {[1..m -> S] : m \in 1..n}

MakeBatch(ds, H, W) ==
  [H |-> H, W |-> W, den |-> 1, px |-> [i \in 1..Len(ds) |-> Image(ds[i], H, W)]]

HardTarget(ds) ==
  [ndim |-> 1, den |-> 1, rows |-> [i \in 1..Len(ds) |-> ds[i] % NClass]]

\* a soft Target: the label smoothed, (one_hot + 1) / (NClass + 1) per row
SoftTarget(ds) ==
  [ndim |-> 2, den |-> NClass + 1,
   rows |-> [i \in 1..Len(ds) |->
               [c \in 0..(NClass - 1) |-> IF c = ds[i] % NClass THEN 2 ELSE 1]]]

\* --------------------------------------------------- operator objects
\* p=0.5, in half units (MixUP.__init__, CutMix.__init__)
DefaultP2 == 1

MixUP(alpha, nclass) ==
  [kind |-> "MixUP", p2 |-> DefaultP2, alpha |-> alpha, nclass |-> nclass]

CutMix(alpha, nclass) ==
  [kind |-> "CutMix", p2 |-> DefaultP2, alpha |-> alpha, nclass |-> nclass]

\* t(batch, target) for an operator object t, with the draws it consumes
OpCall(t, batch, target, u, ratio, ur, uc) ==
  IF t.kind = "MixUP"
  THEN MixUP_call(t, batch, target, u, ratio)
  ELSE CutMix_call(t, batch, target, u, ratio, ur, uc)

\* ------------------------------------------------------ transforms
\* TrainTransform.__init__: the stage list handed to transforms.Compose.
\* auto_aug is the configured policy name, or "" for none.
TrainTransform(resize_mode, hflip, auto_aug, remode) ==
  LET flip == IF hflip # 0 THEN <<"RandomHorizontalFlip">> ELSE <<>>
      aug == IF auto_aug = "" THEN <<>>
             ELSE IF auto_aug = "ra" THEN <<"RandAugment">>
             ELSE IF auto_aug = "ta_wide" THEN <<"TrivialAugmentWide">>
             ELSE IF auto_aug = "aa" THEN <<"AutoAugment">>
             ELSE <<>>
      size == IF resize_mode = "RandomResizedCrop" THEN <<"RandomResizedCrop">>
              ELSE IF resize_mode = "ResizeRandomCrop" THEN <<"Resize", "RandomCrop">>
              ELSE <<>>   \* assert "<non-empty string>": always passes
      erase == IF remode # 0 THEN <<"RandomErasing">> ELSE <<>>
  IN  [transform_fn |-> flip \o aug \o size \o <<"ToTensor", "Normalize">> \o erase]

\* ValTransform.__init__
ValTransform(resize_mode) ==
  [resize |-> IF resize_mode = "resize_shorter" THEN "shorter_side" ELSE "both_sides",
   transform_fn |-> <<"Resize", "CenterCrop", "ToTensor", "Normalize">>]

\* ------------------------------------------------------ get_dataset
_dataset_dict ==
  [k \in {"ImageFolder", "CIFAR10", "CIFAR100", "FashionMNIST"} |-> k]

\* d.get(k): no KeyError, None for a missing key
LookupGet(d, k) ==
  IF k \in DOMAIN d THEN [raised |-> FALSE, value |-> d[k]]
  ELSE [raised |-> FALSE, value |-> "None"]

\* d[k]: KeyError for a missing key
Lookup(d, k) ==
  IF k \in DOMAIN d THEN [raised |-> FALSE, value |-> d[k]]
  ELSE [raised |-> TRUE, value |-> "None"]

NoTransform == [transform_fn |-> <<>>]
NoDataset == [class |-> "None", split |-> "None", transform |-> <<>>]

NoBuilt ==
  [error |-> "none", train_transform |-> NoTransform, val_transform |-> NoTransform,
   transforms_built |-> FALSE, datasets_built |-> FALSE,
   train_dataset |-> NoDataset, val_dataset |-> NoDataset, num_classes |-> 0,
   returned |-> FALSE]

get_dataset(a) ==
  LET dataset_class == Lookup(_dataset_dict, a.dataset_type)
      train_transform == TrainTransform(a.train_resize_mode, a.hflip, a.auto_aug, a.remode)
      val_transform == ValTransform(a.test_resize_mode)
      withT == [NoBuilt EXCEPT !.train_transform = train_transform,
                               !.val_transform = val_transform,
                               !.transforms_built = TRUE]
      withD == [withT EXCEPT
                  !.train_dataset = [class |-> dataset_class.value, split |-> "train",
                                     transform |-> train_transform.transform_fn],
                  !.val_dataset = [class |-> dataset_class.value, split |-> "val",
                                   transform |-> val_transform.transform_fn],
                  !.datasets_built = TRUE,
                  !.num_classes = NClass,
                  !.returned = TRUE]
  IN  IF dataset_class.raised
      THEN [NoBuilt EXCEPT !.error = "KeyError"]
      ELSE IF a.dataset_type = "ImageFolder"
      THEN withD
      ELSE IF a.dataset_type \in DOMAIN _dataset_dict
      THEN withD
      \* else: assert "<non-empty string>" passes; the return statement then
      \* reads train_dataset, which no branch has bound
      ELSE [withT EXCEPT !.error = "UnboundLocalError"]

\* train_dataset[i]: the sample is fetched and the transform stages run on it
Fetch(dataset, i) ==
  [index |-> i, stages |-> dataset.transform]

\* ---------------------------------------------------- get_dataloader
NoLoaders ==
  [built |-> FALSE, train_sampler |-> "None", val_sampler |-> "None",
   mix_collate |-> <<>>, train_collate_fn |-> "None", val_collate_fn |-> "None"]

\* mix_collate.append(CutMix(alpha=args.mixup, nclass=args.num_classes))
CutMixOf(a) == CutMix(a.mixup, a.num_classes)

MixUPOf(a) == MixUP(a.mixup, a.num_classes)

get_dataloader(a) ==
  LET mix_collate ==
        (IF a.mixup # 0 THEN <<MixUPOf(a)>> ELSE <<>>)
        \o (IF a.cutmix # 0 THEN <<CutMixOf(a)>> ELSE <<>>)
  IN  [built |-> TRUE,
       train_sampler |-> IF a.distributed THEN "DistributedSampler(shuffle=True)"
                         ELSE "RandomSampler",
       val_sampler |-> IF a.distributed THEN "DistributedSampler(shuffle=False)"
                       ELSE "SequentialSampler",
       mix_collate |-> mix_collate,
       train_collate_fn |-> IF mix_collate # <<>> THEN "mix_collate" ELSE "None",
       val_collate_fn |-> "None"]

Unmixed(batch, target) ==
  [batch |-> batch, target |-> target, skipped |-> TRUE,
   rnum |-> 0, rden |-> 1, box |-> NoBox]

\* Compose-like: every transform is applied, each to the previous one's output
ApplyAll(ts, j, batch, target, u, ratio, ur, uc) ==
  LET first == OpCall(ts[1], batch, target, u, ratio, ur, uc)
  IN  IF Len(ts) = 1
      THEN [ret |-> first, invoked |-> <<ts[1].kind>>]
      ELSE [ret |-> OpCall(ts[2], first.batch, first.target, u, ratio, ur, uc),
            invoked |-> <<ts[1].kind, ts[2].kind>>]

\* RandomChoice(mix_collate)(batch, target): transform number j is drawn and called
RandomChoice_call(ts, j, batch, target, u, ratio, ur, uc) ==
  [ret |-> OpCall(ts[j], batch, target, u, ratio, ur, uc),
   invoked |-> <<ts[j].kind>>]

\* the random draws one collate step consumes: none under default_collate
\* alone (a single all-zero placeholder), else the index random.choices draws
\* from the transform list ts and the chosen operator's own draws
Draws(collate_fn, ts) ==
  IF collate_fn = "None" \/ ts = <<>>
  THEN {[j |-> 1, u |-> 0, ratio |-> 0, ur |-> 0, uc |-> 0]}
  ELSE [j : 1..Len(ts), u : 0..(RandDen - 1), ratio : 0..RatioDen,
        ur : 0..(RandDen - 1), uc : 0..(RandDen - 1)]

\* the DataLoader's collate step: collate_fn(samples), default_collate when None
Collate(collate_fn, ts, j, batch, target, u, ratio, ur, uc) ==
  IF collate_fn = "None"
  THEN [ret |-> Unmixed(batch, target), invoked |-> <<>>]
  ELSE RandomChoice_call(ts, j, batch, target, u, ratio, ur, uc)

NoArgs ==
  [dataset_type |-> "None", train_resize_mode |-> "None", test_resize_mode |-> "None",
   hflip |-> 0, auto_aug |-> "", remode |-> 0,
   mixup |-> 0, cutmix |-> 0, num_classes |-> 0, distributed |-> FALSE]

NoSelf == [kind |-> "None", p2 |-> 0, alpha |-> 0, nclass |-> 0]

VARIABLES self, batch_in, target_in, ret, pc, args, built, fetched, loaders, invoked

vars == <<self, batch_in, target_in, ret, pc, args, built, fetched, loaders, invoked>>

NoRet == Unmixed(MakeBatch(<<0>>, 1, 1), HardTarget(<<0>>))

\* ------------------------------------------- the operators on their own
InitMix ==
  /\ pc = "call"
  /\ \E kind \in {"MixUP", "CutMix"}, p2 \in 0..2 :
       self = [kind |-> kind, p2 |-> p2, alpha |-> 1, nclass |-> NClass]
  /\ \E ds \in Seqs(0..(NClass - 1), MaxN), H \in 1..MaxH, W \in 1..MaxW :
       /\ batch_in = MakeBatch(ds, H, W)
       /\ target_in \in {HardTarget(ds), SoftTarget(ds)}
  /\ ret = NoRet
  /\ args = NoArgs
  /\ built = NoBuilt
  /\ fetched = {}
  /\ loaders = NoLoaders
  /\ invoked = <<>>

CallMixUP ==
  /\ pc = "call"
  /\ self.kind = "MixUP"
  /\ \E u \in 0..(RandDen - 1), ratio \in 0..RatioDen :
       ret' = MixUP_call(self, batch_in, target_in, u, ratio)
  /\ pc' = "returned"
  /\ invoked' = <<"MixUP">>
  /\ UNCHANGED <<self, batch_in, target_in, args, built, fetched, loaders>>

CallCutMix ==
  /\ pc = "call"
  /\ self.kind = "CutMix"
  /\ \E u \in 0..(RandDen - 1), ratio \in 0..RatioDen,
        ur \in 0..(RandDen - 1), uc \in 0..(RandDen - 1) :
       ret' = CutMix_call(self, batch_in, target_in, u, ratio, ur, uc)
  /\ pc' = "returned"
  /\ invoked' = <<"CutMix">>
  /\ UNCHANGED <<self, batch_in, target_in, args, built, fetched, loaders>>

NextMix == CallMixUP \/ CallCutMix

SpecMix == InitMix /\ [][NextMix]_vars

\* -------------------------------------------------------- get_dataset
DatasetTypes == DOMAIN _dataset_dict \cup {"Unknown"}
ResizeModes == {"RandomResizedCrop", "ResizeRandomCrop", "Unknown"}
AutoAugs == {"", "ra", "ta_wide", "aa", "other"}

InitDataset ==
  /\ pc = "start"
  /\ \E dt \in DatasetTypes, rm \in ResizeModes, tm \in {"resize_shorter", "other"},
        hf \in 0..1, aa \in AutoAugs, re \in 0..1 :
       args = [NoArgs EXCEPT !.dataset_type = dt, !.train_resize_mode = rm,
                             !.test_resize_mode = tm, !.hflip = hf,
                             !.auto_aug = aa, !.remode = re]
  /\ built = NoBuilt
  /\ fetched = {}
  /\ self = NoSelf
  /\ batch_in = NoRet.batch
  /\ target_in = NoRet.target
  /\ ret = NoRet
  /\ loaders = NoLoaders
  /\ invoked = <<>>

GetDataset ==
  /\ pc = "start"
  /\ built' = get_dataset(args)
  /\ args' = IF built'.returned
             THEN [args EXCEPT !.num_classes = built'.num_classes] ELSE args
  /\ pc' = IF built'.returned THEN "datasets" ELSE "raised"
  /\ UNCHANGED <<self, batch_in, target_in, ret, fetched, loaders, invoked>>

\* the first access to a training sample: train_dataset[i]
FetchSample ==
  /\ pc = "datasets"
  /\ \E i \in 0..(NClass - 1) :
       /\ i \notin {f.index : f \in fetched}
       /\ fetched' = fetched \cup {Fetch(built.train_dataset, i)}
  /\ UNCHANGED <<self, batch_in, target_in, ret, pc, args, built, loaders, invoked>>

NextDataset == GetDataset \/ FetchSample

SpecDataset == InitDataset /\ [][NextDataset]_vars

\* ----------------------------------------------------- get_dataloader
InitLoader ==
  /\ pc = "datasets"
  /\ \E mx \in 0..MaxAlpha, cm \in 0..MaxAlpha, dist \in BOOLEAN :
       args = [NoArgs EXCEPT !.dataset_type = "CIFAR10",
                             !.train_resize_mode = "RandomResizedCrop",
                             !.mixup = mx, !.cutmix = cm, !.distributed = dist,
                             !.num_classes = NClass]
  /\ built = get_dataset([NoArgs EXCEPT !.dataset_type = "CIFAR10",
                                        !.train_resize_mode = "RandomResizedCrop"])
  /\ fetched = {}
  /\ self = NoSelf
  /\ batch_in = NoRet.batch
  /\ target_in = NoRet.target
  /\ ret = NoRet
  /\ loaders = NoLoaders
  /\ invoked = <<>>

GetDataloader ==
  /\ pc = "datasets"
  /\ loaders' = get_dataloader(args)
  /\ pc' = "loaders"
  /\ UNCHANGED <<self, batch_in, target_in, ret, args, built, fetched, invoked>>

\* one batch of train_dataloader: the samples are stacked by default_collate and
\* handed to the mixing collate function when there is one
TrainBatch ==
  /\ pc = "loaders"
  /\ \E ds \in Seqs(0..(NClass - 1), MaxN),
        d \in Draws(loaders.train_collate_fn, loaders.mix_collate) :
       LET batch == MakeBatch(ds, MaxW, MaxW)
           target == HardTarget(ds)
           j == d.j
           out == Collate(loaders.train_collate_fn, loaders.mix_collate, j,
                          batch, target, d.u, d.ratio, d.ur, d.uc)
       IN  /\ batch_in' = batch
           /\ target_in' = target
           /\ ret' = out.ret
           /\ invoked' = out.invoked
           /\ self' = IF out.invoked = <<>> THEN NoSelf ELSE loaders.mix_collate[j]
  /\ pc' = "train_batch"
  /\ UNCHANGED <<args, built, fetched, loaders>>

\* one batch of val_dataloader
ValBatch ==
  /\ pc = "loaders"
  /\ \E ds \in Seqs(0..(NClass - 1), MaxN),
        d \in Draws(loaders.val_collate_fn, loaders.mix_collate) :
       LET batch == MakeBatch(ds, MaxW, MaxW)
           target == HardTarget(ds)
           j == d.j
           out == Collate(loaders.val_collate_fn, loaders.mix_collate, j,
                          batch, target, d.u, d.ratio, d.ur, d.uc)
       IN  /\ batch_in' = batch
           /\ target_in' = target
           /\ ret' = out.ret
           /\ invoked' = out.invoked
           /\ self' = IF out.invoked = <<>> THEN NoSelf ELSE loaders.mix_collate[j]
  /\ pc' = "val_batch"
  /\ UNCHANGED <<args, built, fetched, loaders>>

Next == GetDataloader \/ TrainBatch \/ ValBatch

Spec == InitLoader /\ [][Next]_vars

\* ============================================================ properties
RECURSIVE SumOver(_, _)
SumOver(f, S) ==
  IF S = {} THEN 0
  ELSE LET c == CHOOSE x \in S : TRUE IN f[c] + SumOver(f, S \ {c})

\* every row of Target t sums to 1 (a hard Target read as its one-hot promotion)
LabelMassOne(t, nclass) ==
  LET s == IF t.ndim = 1 THEN one_hot(t, nclass) ELSE t
  IN  \A i \in 1..Len(s.rows) : SumOver(s.rows[i], DOMAIN s.rows[i]) = s.den

\* two batches hold the same numbers
NumEqBatch(a, b) ==
  /\ Len(a.px) = Len(b.px)
  /\ \A i \in 1..Len(a.px) : \A q \in DOMAIN a.px[i] :
       a.px[i][q] * b.den = b.px[i][q] * a.den

\* two soft Targets hold the same numbers
NumEqTarget(a, b) ==
  /\ a.ndim = 2 /\ b.ndim = 2
  /\ Len(a.rows) = Len(b.rows)
  /\ \A i \in 1..Len(a.rows) : \A c \in DOMAIN a.rows[i] :
       a.rows[i][c] * b.den = b.rows[i][c] * a.den

\* the sample that sample i is paired with by the cyclic shift
Partner(i, n) == IF i = 1 THEN n ELSE i - 1

Executed(kind) == pc = "returned" /\ self.kind = kind /\ ~ret.skipped

\* C1: a call of MixUP or CutMix on a Target whose rows each sum to 1 (a hard
\* Target, or a soft one of mass 1) returns a Target whose rows each sum to 1,
\* whether the call skipped or executed.
C1_LabelMass ==
  pc = "returned" =>
    (LabelMassOne(target_in, self.nclass) => LabelMassOne(ret.target, self.nclass))

\* C1 witness: CutMix executed on a soft Target with a ratio strictly inside (0,1).
C1_Witness ==
  /\ Executed("CutMix")
  /\ target_in.ndim = 2
  /\ Len(target_in.rows) = 2
  /\ target_in.rows[1] # target_in.rows[2]
  /\ ret.rnum > 0 /\ ret.rnum < ret.rden

\* C2: after CutMix executes, the weight the output Target gives to the paired
\* sample's label equals the fraction of the sample's pixels that were copied
\* from the paired sample; when no pixel was copied the output Target is the
\* one-hot promoted input Target.
C2_LabelWeightIsCopiedFraction ==
  Executed("CutMix") /\ target_in.ndim = 1 =>
    \A i \in 1..Len(batch_in.px) :
      LET j == Partner(i, Len(batch_in.px))
          copied == {q \in DOMAIN batch_in.px[i] : ret.batch.px[i][q] # batch_in.px[i][q]}
      IN  target_in.rows[i] # target_in.rows[j] =>
            /\ ret.target.rows[i][target_in.rows[j]] * (batch_in.H * batch_in.W)
                 = Cardinality(copied) * ret.target.den
            /\ (copied = {} =>
                  NumEqTarget(ret.target, one_hot(target_in, self.nclass)))

\* C4: with p = 1 every call returns the batch and the Target it was given, the
\* Target in the form it came in; with p = 0 every call executes and returns a
\* soft Target of nclass columns.
C4_SkipBoundary ==
  pc = "returned" =>
    /\ self.p2 = 2 =>
         /\ ret.skipped
         /\ ret.batch = batch_in
         /\ ret.target.ndim = target_in.ndim
         /\ ret.target = target_in
    /\ self.p2 = 0 =>
         /\ ~ret.skipped
         /\ ret.target.ndim = 2
         /\ \A i \in 1..Len(ret.target.rows) :
              DOMAIN ret.target.rows[i] = 0..(self.nclass - 1)

\* C4 witness: a call with p = 0 on a hard Target, which came back soft.
C4_Witness ==
  /\ pc = "returned"
  /\ self.p2 = 0
  /\ target_in.ndim = 1
  /\ ret.target.ndim = 2

\* C7: MixUP executed on a batch of one sample returns the same pixel values
\* and the one-hot (or soft) input Target, whatever the ratio.
C7_SingleSampleIdentity ==
  Executed("MixUP") /\ Len(batch_in.px) = 1 =>
    /\ NumEqBatch(ret.batch, batch_in)
    /\ NumEqTarget(ret.target, Promote(self, target_in))

\* C7 witness: MixUP executed on one non-zero image with a ratio inside (0,1).
C7_Witness ==
  /\ Executed("MixUP")
  /\ Len(batch_in.px) = 1
  /\ \E q \in DOMAIN batch_in.px[1] : batch_in.px[1][q] # 0
  /\ ret.rnum = 1 /\ ret.rden = RatioDen

\* C8: the CutMix box is clipped to the image, 0 <= start_x <= end_x <= H and
\* 0 <= start_y <= end_y <= W, so the effective ratio lies in [0,1].
C8_BoxWithinImage ==
  Executed("CutMix") =>
    /\ 0 <= ret.box.start_x /\ ret.box.start_x <= ret.box.end_x
    /\ ret.box.end_x <= batch_in.H
    /\ 0 <= ret.box.start_y /\ ret.box.start_y <= ret.box.end_y
    /\ ret.box.end_y <= batch_in.W
    /\ 0 <= ret.rnum /\ ret.rnum <= ret.rden

\* C9: the column bounds of the CutMix box are [c - width_half, c + width_half]
\* clipped to [0, W], c the drawn column.
C9_ColumnBoundsUseColumn ==
  Executed("CutMix") =>
    LET b == ret.box
    IN  /\ b.start_y = (IF b.c - b.width_half >= 0 THEN b.c - b.width_half ELSE 0)
        /\ b.end_y = (IF b.c + b.width_half <= batch_in.W
                      THEN b.c + b.width_half ELSE batch_in.W)

\* C3: building the training transform with a resize mode that is neither
\* RandomResizedCrop nor ResizeRandomCrop raises at build time: no transform
\* is returned, no dataset is built and no sample is processed.
C3_UnknownResizeModeRaises ==
  pc # "start" /\ args.train_resize_mode \notin {"RandomResizedCrop", "ResizeRandomCrop"} =>
    /\ built.error # "none"
    /\ built.train_transform = NoTransform
    /\ ~built.datasets_built
    /\ fetched = {}

\* C6: a dataset_type outside the registry makes get_dataset raise before any
\* transform or dataset is built; it never returns and no sample is processed.
C6_UnknownDatasetTypeRaises ==
  pc # "start" /\ args.dataset_type \notin DOMAIN _dataset_dict =>
    /\ pc = "raised"
    /\ built.error # "none"
    /\ ~built.transforms_built
    /\ ~built.datasets_built
    /\ ~built.returned
    /\ fetched = {}

\* C6 witness: get_dataset was called with dataset_type "Unknown" and raised.
C6_Witness ==
  /\ pc = "raised"
  /\ args.dataset_type = "Unknown"
  /\ built.error = "KeyError"

Unchanged == ret.batch = batch_in /\ ret.target.ndim = 1 /\ ret.target = target_in

\* C5: a training batch gets no mixing when no operator is configured and
\* otherwise exactly one call, of one configured operator; an evaluation batch
\* is never passed to a mixing operator.
C5_OneOperatorPerBatch ==
  /\ pc = "val_batch" => invoked = <<>> /\ Unchanged
  /\ pc = "train_batch" =>
       IF loaders.mix_collate = <<>>
       THEN invoked = <<>> /\ Unchanged
       ELSE /\ Len(invoked) = 1
            /\ \E j \in 1..Len(loaders.mix_collate) :
                 /\ loaders.mix_collate[j] = self
                 /\ invoked[1] = self.kind
            /\ ret.skipped => Unchanged
            /\ ~ret.skipped /\ self.kind = "MixUP" => ret.box = NoBox
            /\ ~ret.skipped /\ self.kind = "CutMix" => ret.batch.den = batch_in.den

\* C5 witness: both operators configured, and CutMix alone ran on the batch.
C5_Witness ==
  /\ pc = "train_batch"
  /\ Len(loaders.mix_collate) = 2
  /\ invoked = <<"CutMix">>
  /\ ~ret.skipped

\* C10: each operator is enabled exactly when its own setting is non-zero and
\* carries its own setting as alpha: MixUP args.mixup, CutMix args.cutmix.
C10_OwnAlpha ==
  loaders.built =>
    LET kinds == {loaders.mix_collate[j].kind : j \in 1..Len(loaders.mix_collate)}
    IN  /\ ("MixUP" \in kinds) = (args.mixup # 0)
        /\ ("CutMix" \in kinds) = (args.cutmix # 0)
        /\ \A j \in 1..Len(loaders.mix_collate) :
             LET t == loaders.mix_collate[j]
             IN  t.alpha = (IF t.kind = "MixUP" THEN args.mixup ELSE args.cutmix)

====
